---- MODULE Spec2Model ----
(***************************************************************************)
(* A model of gofsm-gen: the FSM model registry (pkg/model/fsm.go), its    *)
(* entities (state.go, event.go, transition.go), the graph analysis        *)
(* (graph.go), the code generator's entry point (pkg/generator) and the    *)
(* dispatch procedure of the generated state machine.                      *)
(*                                                                         *)
(* Go strings that the code inspects character by character (state and     *)
(* event names) are sequences of one-character strings; strings the code   *)
(* only compares or copies (messages, action names, package names) are     *)
(* TLA+ strings.  A Go map is a function whose DOMAIN is the key set; a    *)
(* nil pointer is the record Nil.  mu is the mutex of a machine generated  *)
(* with the concurrency-safe option and inflight the call each goroutine   *)
(* has in progress on it; a machine without the option has neither.        *)
(* walk is a traversal of the graph taken one step at a time, and the      *)
(* template functions of the generator work on the name held in ret.       *)
(***************************************************************************)
EXTENDS Integers, Sequences, FiniteSets, TLC

VARIABLES fsm, graph, sm, ret, mu, inflight, walk

vars == <<fsm, graph, sm, ret, mu, inflight, walk>>

----------------------------------------------------------------------------
(* Values *)

Nil == [nil |-> TRUE]

IsNil(p) == "nil" \in DOMAIN p

EmptyMap == [k \in {} |-> Nil]

MapPut(m, k, v) == [x \in (DOMAIN m) \cup {k} |-> IF x = k THEN v ELSE m[x]]

\* m[k] of a Go map of slices: the zero value, an empty slice, for a missing key
MapSlice(m, k) == IF k \in DOMAIN m THEN m[k] ELSE <<>>

\* a Go error: the message's format and the %q argument it was formatted with
Error(msg, arg) == [msg |-> msg, arg |-> arg, cause |-> ""]

\* fmt.Errorf(msg + ": %w", err)
Wrap(msg, err) == [msg |-> msg, arg |-> err.arg, cause |-> err.msg]

NilErr == Error("<nil>", <<>>)

----------------------------------------------------------------------------
(* Characters and the identifier grammar *)

Lower == {"a", "b", "c", "d", "e", "f", "g", "h", "i", "j", "k", "l", "m",
          "n", "o", "p", "q", "r", "s", "t", "u", "v", "w", "x", "y", "z"}

Upper == {"A", "B", "C", "D", "E", "F", "G", "H", "I", "J", "K", "L", "M",
          "N", "O", "P", "Q", "R", "S", "T", "U", "V", "W", "X", "Y", "Z"}

Digit == {"0", "1", "2", "3", "4", "5", "6", "7", "8", "9"}

\* ^[a-zA-Z_][a-zA-Z0-9_]*$
validNamePattern(name) ==
    /\ Len(name) >= 1
    /\ name[1] \in Lower \cup Upper \cup {"_"}
    /\ \A i \in 2..Len(name) : name[i] \in Lower \cup Upper \cup Digit \cup {"_"}

----------------------------------------------------------------------------
(* Entities *)

State(name, entry, exit) == [Name |-> name, EntryAction |-> entry, ExitAction |-> exit]

Event(name, description) == [Name |-> name, Description |-> description]

Transition(from, to, event, guard, action) ==
    [From |-> from, To |-> to, Event |-> event, Guard |-> guard, Action |-> action]

StateValidate(s) ==
    IF s.Name = <<>> THEN Error("state name cannot be empty", <<>>)
    ELSE IF ~validNamePattern(s.Name)
    THEN Error("state name %q contains invalid characters", s.Name)
    ELSE NilErr

EventValidate(e) ==
    IF e.Name = <<>> THEN Error("event name cannot be empty", <<>>)
    ELSE IF ~validNamePattern(e.Name)
    THEN Error("event name %q contains invalid characters", e.Name)
    ELSE NilErr

TransitionValidate(t) ==
    IF t.From = <<>> THEN Error("from state cannot be empty", <<>>)
    ELSE IF t.To = <<>> THEN Error("to state cannot be empty", <<>>)
    ELSE IF t.Event = <<>> THEN Error("event cannot be empty", <<>>)
    ELSE NilErr

----------------------------------------------------------------------------
(* FSMModel *)

\* the *FSMModel and error that NewFSMModel returns
NewFSMModel(name, initial) ==
    IF name = "" THEN [fsm |-> Nil, err |-> Error("machine name cannot be empty", <<>>)]
    ELSE IF initial = <<>>
    THEN [fsm |-> Nil, err |-> Error("initial state cannot be empty", <<>>)]
    ELSE [fsm |-> [Name |-> name, Initial |-> initial, States |-> EmptyMap,
                   Events |-> EmptyMap, Transitions |-> <<>>, Package |-> ""],
          err |-> NilErr]

\* AddState without the duplicate check: a second state replaces the first
AddState_NoDuplicateCheck(f, state) ==
    IF IsNil(state) THEN [fsm |-> f, err |-> Error("cannot add nil state", <<>>)]
    ELSE IF state.Name = <<>>
    THEN [fsm |-> f, err |-> Error("state name cannot be empty", <<>>)]
    ELSE [fsm |-> [f EXCEPT !.States = MapPut(@, state.Name, state)], err |-> NilErr]

\* the model after f.AddState(state), and the error returned
AddState(f, state) ==
    IF IsNil(state) THEN [fsm |-> f, err |-> Error("cannot add nil state", <<>>)]
    ELSE IF state.Name = <<>>
    THEN [fsm |-> f, err |-> Error("state name cannot be empty", <<>>)]
    ELSE IF state.Name \in DOMAIN f.States
    THEN [fsm |-> f, err |-> Error("state %q already exists", state.Name)]
    ELSE [fsm |-> [f EXCEPT !.States = MapPut(@, state.Name, state)], err |-> NilErr]

\* AddEvent storing the event before it looks for a duplicate
AddEvent_StoreFirst(f, event) ==
    IF IsNil(event) THEN [fsm |-> f, err |-> Error("cannot add nil event", <<>>)]
    ELSE IF event.Name = <<>>
    THEN [fsm |-> f, err |-> Error("event name cannot be empty", <<>>)]
    ELSE IF event.Name \in DOMAIN f.Events
    THEN [fsm |-> [f EXCEPT !.Events = MapPut(@, event.Name, event)],
          err |-> Error("event %q already exists", event.Name)]
    ELSE [fsm |-> [f EXCEPT !.Events = MapPut(@, event.Name, event)], err |-> NilErr]

\* the model after f.AddEvent(event), and the error returned
AddEvent(f, event) ==
    IF IsNil(event) THEN [fsm |-> f, err |-> Error("cannot add nil event", <<>>)]
    ELSE IF event.Name = <<>>
    THEN [fsm |-> f, err |-> Error("event name cannot be empty", <<>>)]
    ELSE IF event.Name \in DOMAIN f.Events
    THEN [fsm |-> f, err |-> Error("event %q already exists", event.Name)]
    ELSE [fsm |-> [f EXCEPT !.Events = MapPut(@, event.Name, event)], err |-> NilErr]

\* AddTransition without the check of the target state
AddTransition_NoToCheck(f, transition) ==
    IF IsNil(transition)
    THEN [fsm |-> f, err |-> Error("cannot add nil transition", <<>>)]
    ELSE IF transition.From \notin DOMAIN f.States
    THEN [fsm |-> f, err |-> Error("from state %q is not defined", transition.From)]
    ELSE IF transition.Event \notin DOMAIN f.Events
    THEN [fsm |-> f, err |-> Error("event %q is not defined", transition.Event)]
    ELSE [fsm |-> [f EXCEPT !.Transitions = Append(@, transition)], err |-> NilErr]

\* the model after f.AddTransition(transition), and the error returned
AddTransition(f, transition) ==
    IF IsNil(transition)
    THEN [fsm |-> f, err |-> Error("cannot add nil transition", <<>>)]
    ELSE IF transition.From \notin DOMAIN f.States
    THEN [fsm |-> f, err |-> Error("from state %q is not defined", transition.From)]
    ELSE IF transition.To \notin DOMAIN f.States
    THEN [fsm |-> f, err |-> Error("to state %q is not defined", transition.To)]
    ELSE IF transition.Event \notin DOMAIN f.Events
    THEN [fsm |-> f, err |-> Error("event %q is not defined", transition.Event)]
    ELSE [fsm |-> [f EXCEPT !.Transitions = Append(@, transition)], err |-> NilErr]

\* Validate without the check for an empty event set
Validate_NoEventCheck(f) ==
    IF f.Initial \notin DOMAIN f.States
    THEN {Error("initial state %q is not defined", f.Initial)}
    ELSE IF \E n \in DOMAIN f.States : StateValidate(f.States[n]) # NilErr
    THEN {Wrap("invalid state", StateValidate(f.States[n])) :
             n \in {k \in DOMAIN f.States : StateValidate(f.States[k]) # NilErr}}
    ELSE {NilErr}

\* the errors f.Validate() can return: the first failing check; a range over
\* a map visits its entries in an order Go does not fix, so any invalid
\* entry can be the one reported
Validate(f) ==
    IF f.Initial \notin DOMAIN f.States
    THEN {Error("initial state %q is not defined", f.Initial)}
    ELSE IF Cardinality(DOMAIN f.States) = 0
    THEN {Error("FSM must have at least one state", <<>>)}
    ELSE IF Cardinality(DOMAIN f.Events) = 0
    THEN {Error("FSM must have at least one event", <<>>)}
    ELSE LET badStates == {n \in DOMAIN f.States : StateValidate(f.States[n]) # NilErr}
             badEvents == {n \in DOMAIN f.Events : EventValidate(f.Events[n]) # NilErr}
             badTrans  == {i \in 1..Len(f.Transitions) :
                              TransitionValidate(f.Transitions[i]) # NilErr}
         IN  IF badStates # {}
             THEN {Wrap("invalid state", StateValidate(f.States[n])) : n \in badStates}
             ELSE IF badEvents # {}
             THEN {Wrap("invalid event", EventValidate(f.Events[n])) : n \in badEvents}
             ELSE IF badTrans # {}
             THEN {Wrap("invalid transition",
                        TransitionValidate(f.Transitions[
                            CHOOSE i \in badTrans : \A j \in badTrans : i <= j]))}
             ELSE {NilErr}

GetState(f, name) == IF name \in DOMAIN f.States THEN f.States[name] ELSE Nil

GetEvent(f, name) == IF name \in DOMAIN f.Events THEN f.Events[name] ELSE Nil

\* GetTransitionsFrom selecting on the target state
GetTransitionsFrom_ByTo(f, stateName) ==
    SelectSeq(f.Transitions, LAMBDA t : t.To = stateName)

\* GetTransitionsFrom leaving its loop at the first match
GetTransitionsFrom_FirstOnly(f, stateName) ==
    LET all == SelectSeq(f.Transitions, LAMBDA t : t.From = stateName)
    IN  IF all = <<>> THEN <<>> ELSE <<all[1]>>

GetTransitionsFrom(f, stateName) ==
    SelectSeq(f.Transitions, LAMBDA t : t.From = stateName)

\* GetTransitionsTo putting each match in front of the earlier ones
GetTransitionsTo_Prepend(f, stateName) ==
    LET all == SelectSeq(f.Transitions, LAMBDA t : t.To = stateName)
    IN  [i \in 1..Len(all) |-> all[Len(all) + 1 - i]]

GetTransitionsTo(f, stateName) ==
    SelectSeq(f.Transitions, LAMBDA t : t.To = stateName)

----------------------------------------------------------------------------
(* StateGraph.  g.FSM points to the model, so the operations that read it  *)
(* take the model as f.  visited, recStack and reachable are map[string]bool *)
(* in which the code only ever stores true for a visited state (recStack   *)
(* stores false again on leaving): each is the set of keys mapped to true. *)

NewStateGraph(f) ==
    [adjacencyList |-> EmptyMap, reverseAdjacencyList |-> EmptyMap, reachable |-> {}]

\* Build's first loop leaving the lists of a graph built before as they are
ResetLists_KeepLists(m, f) ==
    [k \in (DOMAIN m) \cup (DOMAIN f.States) |-> IF k \in DOMAIN m THEN m[k] ELSE <<>>]

\* Build's first loop: an empty slice for every state, other keys kept
ResetLists(m, f) ==
    [k \in (DOMAIN m) \cup (DOMAIN f.States) |->
        IF k \in DOMAIN f.States THEN <<>> ELSE m[k]]

RECURSIVE AppendEdges(_, _, _, _)
\* Build's second loop passing over a transition its list already holds
RECURSIVE AppendEdges_NoRepeat(_, _, _, _)
AppendEdges_NoRepeat(m, ts, i, byFrom) ==
    IF i > Len(ts) THEN m
    ELSE LET k == IF byFrom THEN ts[i].From ELSE ts[i].To
             held == \E j \in 1..Len(MapSlice(m, k)) : MapSlice(m, k)[j] = ts[i]
         IN  AppendEdges_NoRepeat(
                 IF held THEN m ELSE MapPut(m, k, Append(MapSlice(m, k), ts[i])),
                 ts, i + 1, byFrom)

\* Build's second loop, from transition i on: m[key(t)] = append(m[key(t)], t)
AppendEdges(m, ts, i, byFrom) ==
    IF i > Len(ts) THEN m
    ELSE LET k == IF byFrom THEN ts[i].From ELSE ts[i].To
         IN  AppendEdges(MapPut(m, k, Append(MapSlice(m, k), ts[i])), ts, i + 1, byFrom)

\* the visited set after g.dfs(state, visited); dfsFrom is its loop over the
\* outgoing transitions ts, from transition i on
RECURSIVE dfs(_, _, _)
RECURSIVE dfsFrom(_, _, _, _)
\* dfs marking the targets of the outgoing transitions without visiting them
dfs_OneLevel(adj, state, visited) ==
    IF state \in visited THEN visited
    ELSE visited \cup {state} \cup {t.To : t \in {MapSlice(adj, state)[i] :
                                                    i \in 1..Len(MapSlice(adj, state))}}

dfs(adj, state, visited) ==
    IF state \in visited THEN visited
    ELSE dfsFrom(adj, MapSlice(adj, state), 1, visited \cup {state})

dfsFrom(adj, ts, i, visited) ==
    IF i > Len(ts) THEN visited
    ELSE dfsFrom(adj, ts, i + 1, dfs(adj, ts[i].To, visited))

\* computeReachability that marks the initial state and goes no further
computeReachability_InitialOnly(adj, f) == {f.Initial}

\* the visited map of computeReachability, which becomes g.reachable
computeReachability(adj, f) == dfs(adj, f.Initial, {})

\* the graph after g.Build()
Build(g, f) ==
    LET adj == AppendEdges(ResetLists(g.adjacencyList, f), f.Transitions, 1, TRUE)
        rev == AppendEdges(ResetLists(g.reverseAdjacencyList, f), f.Transitions, 1, FALSE)
    IN  [adjacencyList |-> adj, reverseAdjacencyList |-> rev,
         reachable |-> computeReachability(adj, f)]

GetOutgoingTransitions(g, state) ==
    IF state \in DOMAIN g.adjacencyList THEN g.adjacencyList[state] ELSE <<>>

GetIncomingTransitions(g, state) ==
    IF state \in DOMAIN g.reverseAdjacencyList THEN g.reverseAdjacencyList[state] ELSE <<>>

IsReachable(g, state) == state \in g.reachable

\* the orders in which a range over a map with key set S can visit its keys
Orders(S) ==
    {o \in [1..Cardinality(S) -> S] : \A i, j \in 1..Cardinality(S) : o[i] = o[j] => i = j}

\* GetUnreachableStates passing over the states without outgoing transitions
GetUnreachableStates_WithEdges(g, f) ==
    {SelectSeq(o, LAMBDA n : ~IsReachable(g, n) /\ MapSlice(g.adjacencyList, n) # <<>>) :
        o \in Orders(DOMAIN f.States)}

\* the slices GetUnreachableStates can return, one for each order of the range
GetUnreachableStates(g, f) ==
    {SelectSeq(o, LAMBDA n : ~IsReachable(g, n)) : o \in Orders(DOMAIN f.States)}

\* hasCycleUtil(state, visited, recStack): found is the result, visited and
\* recStack the maps as the call leaves them; hasCycleFrom is its loop over
\* the outgoing transitions ts, from transition i on
RECURSIVE hasCycleUtil(_, _, _, _)
RECURSIVE hasCycleFrom(_, _, _, _, _, _)
hasCycleUtil(adj, state, visited, recStack) ==
    hasCycleFrom(adj, state, MapSlice(adj, state), 1,
                 visited \cup {state}, recStack \cup {state})

\* hasCycleUtil's loop taking a transition back to its own state for no cycle
RECURSIVE hasCycleFrom_SkipSelf(_, _, _, _, _, _)
hasCycleFrom_SkipSelf(adj, state, ts, i, visited, recStack) ==
    IF i > Len(ts)
    THEN [found |-> FALSE, visited |-> visited, recStack |-> recStack \ {state}]
    ELSE IF ts[i].To \notin visited
    THEN LET r == hasCycleUtil(adj, ts[i].To, visited, recStack)
         IN  IF r.found THEN r
             ELSE hasCycleFrom_SkipSelf(adj, state, ts, i + 1, r.visited, r.recStack)
    ELSE IF ts[i].To \in recStack /\ ts[i].To # state
    THEN [found |-> TRUE, visited |-> visited, recStack |-> recStack]
    ELSE hasCycleFrom_SkipSelf(adj, state, ts, i + 1, visited, recStack)

hasCycleFrom(adj, state, ts, i, visited, recStack) ==
    IF i > Len(ts)
    THEN [found |-> FALSE, visited |-> visited, recStack |-> recStack \ {state}]
    ELSE IF ts[i].To \notin visited
    THEN LET r == hasCycleUtil(adj, ts[i].To, visited, recStack)
         IN  IF r.found THEN r
             ELSE hasCycleFrom(adj, state, ts, i + 1, r.visited, r.recStack)
    ELSE IF ts[i].To \in recStack
    THEN [found |-> TRUE, visited |-> visited, recStack |-> recStack]
    ELSE hasCycleFrom(adj, state, ts, i + 1, visited, recStack)

\* HasCycles' loop over the states in the order o, from position i on
RECURSIVE HasCyclesIn(_, _, _, _, _)
\* HasCycles' loop searching from the first state of the range only
HasCyclesIn_FirstOnly(adj, o, i, visited, recStack) ==
    IF i > Len(o) THEN FALSE
    ELSE hasCycleUtil(adj, o[i], visited, recStack).found

HasCyclesIn(adj, o, i, visited, recStack) ==
    IF i > Len(o) THEN FALSE
    ELSE IF o[i] \notin visited
    THEN LET r == hasCycleUtil(adj, o[i], visited, recStack)
         IN  IF r.found THEN TRUE
             ELSE HasCyclesIn(adj, o, i + 1, r.visited, r.recStack)
    ELSE HasCyclesIn(adj, o, i + 1, visited, recStack)

\* the results HasCycles can return, one for each order of the range
HasCycles(g, f) ==
    {HasCyclesIn(g.adjacencyList, o, 1, {}, {}) : o \in Orders(DOMAIN f.States)}

----------------------------------------------------------------------------
(* CodeGenerator and the generated state machine.  templates/            *)
(* state_machine.tmpl is not part of the sources at hand: the generated    *)
(* program is the structure the template is documented to render (the      *)
(* package clause and a machine over the model's states, events and        *)
(* GetTransitionsFrom), and its dispatch follows the documented order.     *)

\* what ExecuteTemplate writes for model m
ExecuteTemplate(m) == [package |-> m.Package, machine |-> m]

\* the model after g.Generate(m), the bytes and the error returned
Generate(m) ==
    IF IsNil(m) THEN [fsm |-> m, code |-> Nil, err |-> Error("model cannot be nil", <<>>)]
    ELSE LET m1 == IF m.Package = "" THEN [m EXCEPT !.Package = "main"] ELSE m
         IN  [fsm |-> m1, code |-> ExecuteTemplate(m1), err |-> NilErr]

\* an io.Writer: the chunks written to it so far, and whether its Write fails
Writer(data, broken) == [data |-> data, broken |-> broken]

\* w.Write(p): the writer afterwards and the error returned
Write(w, p) ==
    IF w.broken THEN [w |-> w, err |-> Error("write failed", <<>>)]
    ELSE [w |-> [w EXCEPT !.data = Append(@, p)], err |-> NilErr]

\* GenerateTo writing what Generate returned before it looks at the error
GenerateTo_WriteFirst(m, w) ==
    LET r  == Generate(m)
        wr == Write(w, r.code)
    IN  IF r.err # NilErr THEN [fsm |-> r.fsm, w |-> wr.w, err |-> r.err]
        ELSE [fsm |-> r.fsm, w |-> wr.w, err |-> wr.err]

\* the model and the writer after g.GenerateTo(m, w), and the error returned
GenerateTo(m, w) ==
    LET r == Generate(m)
    IN  IF r.err # NilErr THEN [fsm |-> r.fsm, w |-> w, err |-> r.err]
        ELSE LET wr == Write(w, r.code)
             IN  [fsm |-> r.fsm, w |-> wr.w, err |-> wr.err]

ErrInvalidTransition == Error("invalid state transition", <<>>)

ErrGuardRejected == Error("guard rejected transition", <<>>)

\* the generated constructor: an instance in the initial state
NewMachine(code) == [machine |-> code.machine, currentState |-> code.machine.Initial]

\* the transitions the generated switch holds for (current state, event)
Matching(m, event) ==
    SelectSeq(GetTransitionsFrom(m.machine, m.currentState), LAMBDA t : t.Event = event)

\* CanTransition looking for the event among the transitions of every state
CanTransition_AnyState(m, event) ==
    \E i \in 1..Len(m.machine.Transitions) : m.machine.Transitions[i].Event = event

\* the generated CanTransition(event) and PermittedEvents()
CanTransition(m, event) == Len(Matching(m, event)) > 0

PermittedEvents(m) == {e \in DOMAIN m.machine.Events : CanTransition(m, e)}

\* the plan with the state changed before the action of the transition runs
Plan_StateBeforeAction(m, t) ==
    LET src == GetState(m.machine, m.currentState)
        dst == GetState(m.machine, t.To)
    IN  (IF t.Guard # "" THEN <<"guard">> ELSE <<>>)
        \o (IF ~IsNil(src) /\ src.ExitAction # "" THEN <<"exit">> ELSE <<>>)
        \o <<"state">>
        \o (IF t.Action # "" THEN <<"action">> ELSE <<>>)
        \o (IF ~IsNil(dst) /\ dst.EntryAction # "" THEN <<"entry">> ELSE <<>>)

\* the plan with the entry action run before the state is changed
Plan_EntryBeforeState(m, t) ==
    LET src == GetState(m.machine, m.currentState)
        dst == GetState(m.machine, t.To)
    IN  (IF t.Guard # "" THEN <<"guard">> ELSE <<>>)
        \o (IF ~IsNil(src) /\ src.ExitAction # "" THEN <<"exit">> ELSE <<>>)
        \o (IF t.Action # "" THEN <<"action">> ELSE <<>>)
        \o (IF ~IsNil(dst) /\ dst.EntryAction # "" THEN <<"entry">> ELSE <<>>)
        \o <<"state">>

\* The steps the dispatch of transition t goes through from the current
\* state when none of them fails: the guard, the exit action of the source
\* state, the action of the transition, the change of state, the entry
\* action of the target state; a step the model does not declare is left out.
Plan(m, t) ==
    LET src == GetState(m.machine, m.currentState)
        dst == GetState(m.machine, t.To)
    IN  (IF t.Guard # "" THEN <<"guard">> ELSE <<>>)
        \o (IF ~IsNil(src) /\ src.ExitAction # "" THEN <<"exit">> ELSE <<>>)
        \o (IF t.Action # "" THEN <<"action">> ELSE <<>>)
        \o <<"state">>
        \o (IF ~IsNil(dst) /\ dst.EntryAction # "" THEN <<"entry">> ELSE <<>>)

\* env holds what the user's callables answer when called: guard (the
\* guard's result), exit, action, entry (TRUE when that action returns an
\* error).  The step fails under env:
StepFails(step, env) ==
    \/ step = "guard" /\ ~env.guard
    \/ step = "exit" /\ env.exit
    \/ step = "action" /\ env.action
    \/ step = "entry" /\ env.entry

\* the error Transition returns when the step fails: the guard's rejection,
\* or the error of the user's action
StepError(m, t, step) ==
    IF step = "guard" THEN ErrGuardRejected
    ELSE IF step = "exit" THEN Error("exit action failed", m.currentState)
    ELSE IF step = "action" THEN Error("transition action failed", t.Event)
    ELSE Error("entry action failed", t.To)

\* The outcomes of the dispatch of transition t, chosen for (current state,
\* event): the steps run in the order of the plan up to the first that
\* fails.  A failure before the change of state leaves the state; for a
\* failure after it (the entry action) it is not laid down whether the
\* change is kept or undone, and both outcomes are possible.
Dispatch(m, t, env) ==
    LET plan  == Plan(m, t)
        bad   == {i \in 1..Len(plan) : StepFails(plan[i], env)}
        moved == [m EXCEPT !.currentState = t.To]
    IN  IF bad = {}
        THEN {[sm |-> moved, err |-> NilErr, steps |-> plan, taken |-> t]}
        ELSE LET stop  == CHOOSE i \in bad : \A j \in bad : i <= j
                 steps == SubSeq(plan, 1, stop)
                 err   == StepError(m, t, plan[stop])
             IN  IF \E i \in 1..stop : plan[i] = "state"
                 THEN {[sm |-> moved, err |-> err, steps |-> steps, taken |-> t],
                       [sm |-> m, err |-> err, steps |-> steps, taken |-> t]}
                 ELSE {[sm |-> m, err |-> err, steps |-> steps, taken |-> t]}

\* the results the generated Transition(event) can have under env: the
\* rejection when nothing matches, else the dispatch of a matching transition
TransitionResults(m, event, env) ==
    LET ts == Matching(m, event)
    IN  IF Len(ts) = 0
        THEN {[sm |-> m, err |-> ErrInvalidTransition, steps |-> <<>>, taken |-> Nil]}
        ELSE UNION {Dispatch(m, ts[i], env) : i \in 1..Len(ts)}

----------------------------------------------------------------------------
(* Inputs *)

MaxTransitions == 2

pending  == <<"p">>
approved == <<"a">>
rejected == <<"r">>
shipped  == <<"s">>
archived == <<"z">>

approve == <<"a", "p">>
reject  == <<"r", "j">>
ship    == <<"s", "h">>

\* malformed names: a leading digit, a space
digitName == <<"1", "a">>
spaceName == <<"g", " ", "o">>

StateArgs ==
    {Nil, State(<<>>, "", ""), State(pending, "", ""), State(pending, "logEntry", "logExit"),
     State(approved, "", ""), State(shipped, "notifyCustomer", ""),
     State(digitName, "", "")}

EventArgs ==
    {Nil, Event(<<>>, ""), Event(approve, ""), Event(ship, ""), Event(ship, "dispatch"),
     Event(spaceName, "")}

TransitionArgs ==
    {Nil,
     Transition(pending, approved, approve, "", ""),
     Transition(pending, shipped, approve, "", ""),
     Transition(pending, approved, approve, "hasPayment", "chargeCard"),
     Transition(approved, shipped, ship, "", "notifyShipping"),
     Transition(shipped, approved, ship, "", ""),
     Transition(shipped, shipped, approve, "", "")}

ProbeNames == {pending, approved, shipped, archived}

Call(op, arg, err, out) == [op |-> op, arg |-> arg, err |-> err, out |-> out]

\* no traversal of the graph in progress
NoWalk ==
    [kind |-> "none", stack |-> <<>>, visited |-> {}, recStack |-> {},
     todo |-> {}, expanded |-> <<>>, found |-> FALSE, running |-> FALSE]

----------------------------------------------------------------------------
(* The compiler pipeline: a builder makes the model through the            *)
(* add-operations, then hands it to the graph analysis, the validation and *)
(* the generator; the builder adds nothing after the hand-over.            *)

Init ==
    /\ fsm = NewFSMModel("OrderStateMachine", pending).fsm
    /\ graph = Nil
    /\ sm = Nil
    /\ ret = Call("NewFSMModel", Nil, NilErr, Nil)
    /\ mu = Nil
    /\ inflight = <<>>
    /\ walk = NoWalk

AddStateCall ==
    /\ IsNil(graph)
    /\ \E state \in StateArgs :
          LET r == AddState(fsm, state)
          IN  /\ fsm' = r.fsm
              /\ ret' = Call("AddState", state, r.err, Nil)
    /\ UNCHANGED <<graph, sm, mu, inflight, walk>>

AddEventCall ==
    /\ IsNil(graph)
    /\ \E event \in EventArgs :
          LET r == AddEvent(fsm, event)
          IN  /\ fsm' = r.fsm
              /\ ret' = Call("AddEvent", event, r.err, Nil)
    /\ UNCHANGED <<graph, sm, mu, inflight, walk>>

AddTransitionCall ==
    /\ IsNil(graph)
    /\ \E transition \in TransitionArgs :
          LET r == AddTransition(fsm, transition)
          IN  /\ Len(r.fsm.Transitions) <= MaxTransitions
              /\ fsm' = r.fsm
              /\ ret' = Call("AddTransition", transition, r.err, Nil)
    /\ UNCHANGED <<graph, sm, mu, inflight, walk>>

NewStateGraphCall ==
    /\ IsNil(graph)
    /\ graph' = NewStateGraph(fsm)
    /\ ret' = Call("NewStateGraph", Nil, NilErr, Nil)
    /\ UNCHANGED <<fsm, sm, mu, inflight, walk>>

\* g.Build(); the call is recorded with the graph it was made on
BuildCall ==
    /\ ~IsNil(graph)
    /\ graph' = Build(graph, fsm)
    /\ ret' = Call("Build", graph, NilErr, Nil)
    /\ UNCHANGED <<fsm, sm, mu, inflight, walk>>

ValidateCall ==
    /\ ~IsNil(graph)
    /\ \E err \in Validate(fsm) : ret' = Call("Validate", Nil, err, Nil)
    /\ UNCHANGED <<fsm, graph, sm, mu, inflight, walk>>

GenerateCall ==
    /\ ~IsNil(graph)
    /\ \E m \in {Nil, fsm} :
          LET r == Generate(m)
          IN  /\ fsm' = (IF IsNil(m) THEN fsm ELSE r.fsm)
              /\ ret' = Call("Generate", IsNil(m), r.err, r.code)
    /\ UNCHANGED <<graph, sm, mu, inflight, walk>>

IsReachableCall ==
    /\ ~IsNil(graph)
    /\ \E state \in ProbeNames :
          ret' = Call("IsReachable", state, NilErr, IsReachable(graph, state))
    /\ UNCHANGED <<fsm, graph, sm, mu, inflight, walk>>

GetUnreachableStatesCall ==
    /\ ~IsNil(graph)
    /\ \E out \in GetUnreachableStates(graph, fsm) :
          ret' = Call("GetUnreachableStates", Nil, NilErr, out)
    /\ UNCHANGED <<fsm, graph, sm, mu, inflight, walk>>

HasCyclesCall ==
    /\ ~IsNil(graph)
    /\ \E out \in HasCycles(graph, fsm) : ret' = Call("HasCycles", Nil, NilErr, out)
    /\ UNCHANGED <<fsm, graph, sm, mu, inflight, walk>>

GetOutgoingTransitionsCall ==
    /\ ~IsNil(graph)
    /\ \E state \in ProbeNames :
          ret' = Call("GetOutgoingTransitions", state, NilErr,
                      GetOutgoingTransitions(graph, state))
    /\ UNCHANGED <<fsm, graph, sm, mu, inflight, walk>>

GetIncomingTransitionsCall ==
    /\ ~IsNil(graph)
    /\ \E state \in ProbeNames :
          ret' = Call("GetIncomingTransitions", state, NilErr,
                      GetIncomingTransitions(graph, state))
    /\ UNCHANGED <<fsm, graph, sm, mu, inflight, walk>>

GetTransitionsFromCall ==
    /\ ~IsNil(graph)
    /\ \E stateName \in ProbeNames :
          ret' = Call("GetTransitionsFrom", stateName, NilErr,
                      GetTransitionsFrom(fsm, stateName))
    /\ UNCHANGED <<fsm, graph, sm, mu, inflight, walk>>

GetTransitionsToCall ==
    /\ ~IsNil(graph)
    /\ \E stateName \in ProbeNames :
          ret' = Call("GetTransitionsTo", stateName, NilErr,
                      GetTransitionsTo(fsm, stateName))
    /\ UNCHANGED <<fsm, graph, sm, mu, inflight, walk>>

Next ==
    \/ AddStateCall
    \/ AddEventCall
    \/ AddTransitionCall
    \/ NewStateGraphCall
    \/ BuildCall
    \/ ValidateCall
    \/ GenerateCall

Spec == Init /\ [][Next]_vars

----------------------------------------------------------------------------
(* The generated machine at run time, for models made by the add-operations *)

\* the model after the calls of a builder's script, from call i on
RECURSIVE RunScript(_, _, _)
RunScript(f, calls, i) ==
    IF i > Len(calls) THEN f
    ELSE LET c == calls[i]
             r == IF c.op = "AddState" THEN AddState(f, c.arg)
                  ELSE IF c.op = "AddEvent" THEN AddEvent(f, c.arg)
                  ELSE AddTransition(f, c.arg)
         IN  RunScript(r.fsm, calls, i + 1)

\* createOrderStateMachine of code_generator_test.go
OrderScript ==
    << [op |-> "AddState", arg |-> State(pending, "logEntry", "logExit")],
       [op |-> "AddState", arg |-> State(approved, "", "")],
       [op |-> "AddState", arg |-> State(rejected, "", "")],
       [op |-> "AddState", arg |-> State(shipped, "notifyCustomer", "")],
       [op |-> "AddEvent", arg |-> Event(approve, "")],
       [op |-> "AddEvent", arg |-> Event(reject, "")],
       [op |-> "AddEvent", arg |-> Event(ship, "")],
       [op |-> "AddTransition",
        arg |-> Transition(pending, approved, approve, "hasPayment", "chargeCard")],
       [op |-> "AddTransition",
        arg |-> Transition(pending, rejected, reject, "", "sendRejectionEmail")],
       [op |-> "AddTransition",
        arg |-> Transition(approved, shipped, ship, "", "notifyShipping")] >>

\* what a script may add to the order model: an unconnected state, a back
\* edge, a second unguarded transition of a group, a self-transition, a
\* transition with a guard, an action and actions on both of its states
ExtraScripts ==
    { <<>>,
      << [op |-> "AddState", arg |-> State(archived, "", "")] >>,
      << [op |-> "AddTransition", arg |-> Transition(shipped, pending, ship, "", "")] >>,
      << [op |-> "AddTransition", arg |-> Transition(pending, shipped, reject, "", "")] >>,
      << [op |-> "AddTransition", arg |-> Transition(rejected, rejected, reject, "", "")] >>,
      << [op |-> "AddTransition",
          arg |-> Transition(pending, shipped, ship, "hasPayment", "chargeCard")] >> }

ScenarioModels ==
    {RunScript(NewFSMModel("OrderStateMachine", pending).fsm, OrderScript \o extra, 1) :
        extra \in ExtraScripts}

----------------------------------------------------------------------------
(* The graph analysis and the queries, for models made by the               *)
(* add-operations: the builder declares one of a few sets of states and the *)
(* event ship, then adds up to MaxEdges transitions, some of them refused.  *)

MaxEdges == 2

StateScripts ==
    { <<>>,
      << [op |-> "AddState", arg |-> State(approved, "", "")],
         [op |-> "AddState", arg |-> State(shipped, "", "")] >>,
      << [op |-> "AddState", arg |-> State(pending, "", "")],
         [op |-> "AddState", arg |-> State(approved, "", "")],
         [op |-> "AddState", arg |-> State(shipped, "", "")],
         [op |-> "AddState", arg |-> State(archived, "", "")] >> }

EdgeArgs ==
    {Transition(e[1], e[2], ship, "", "") :
        e \in { <<pending, pending>>, <<pending, approved>>, <<pending, shipped>>,
                <<approved, pending>>, <<approved, shipped>>, <<approved, archived>>,
                <<shipped, approved>>, <<shipped, shipped>> }}

EdgeScripts ==
    UNION {[1..n -> {[op |-> "AddTransition", arg |-> t] : t \in EdgeArgs}] : n \in 0..MaxEdges}

GraphModels ==
    {RunScript(NewFSMModel("OrderStateMachine", pending).fsm,
               states \o << [op |-> "AddEvent", arg |-> Event(ship, "")] >> \o edges, 1) :
        states \in StateScripts, edges \in EdgeScripts}

InitGraph ==
    /\ fsm \in GraphModels \cup ScenarioModels
    /\ graph = Nil
    /\ sm = Nil
    /\ ret = Call("NewFSMModel", Nil, NilErr, Nil)
    /\ mu = Nil
    /\ inflight = <<>>
    /\ walk = NoWalk

NextGraph ==
    \/ NewStateGraphCall
    \/ BuildCall
    \/ IsReachableCall
    \/ GetUnreachableStatesCall
    \/ HasCyclesCall
    \/ GetOutgoingTransitionsCall
    \/ GetIncomingTransitionsCall
    \/ GetTransitionsFromCall
    \/ GetTransitionsToCall

SpecGraph == InitGraph /\ [][NextGraph]_vars

\* what the user's guard and actions answer during one dispatch
Envs == [guard : BOOLEAN, exit : BOOLEAN, action : BOOLEAN, entry : BOOLEAN]

InitRun ==
    /\ \E f \in ScenarioModels :
          LET r == Generate(f)
          IN  /\ fsm = r.fsm
              /\ graph = Build(NewStateGraph(r.fsm), r.fsm)
              /\ sm = NewMachine(r.code)
    /\ ret = Call("NewMachine", Nil, NilErr, Nil)
    /\ mu = Nil
    /\ inflight = <<>>
    /\ walk = NoWalk

TransitionCall ==
    /\ \E event \in DOMAIN sm.machine.Events :
          \E env \in Envs :
            \E r \in TransitionResults(sm, event, env) :
              /\ sm' = r.sm
              /\ ret' = Call("Transition", event, r.err,
                             [from |-> sm.currentState, steps |-> r.steps,
                              taken |-> r.taken, env |-> env])
    /\ UNCHANGED <<fsm, graph, mu, inflight, walk>>

StateCall ==
    /\ ret' = Call("State", Nil, NilErr, sm.currentState)
    /\ UNCHANGED <<fsm, graph, sm, mu, inflight, walk>>

CanTransitionCall ==
    /\ \E event \in DOMAIN sm.machine.Events :
          ret' = Call("CanTransition", event, NilErr, CanTransition(sm, event))
    /\ UNCHANGED <<fsm, graph, sm, mu, inflight, walk>>

PermittedEventsCall ==
    /\ ret' = Call("PermittedEvents", Nil, NilErr, PermittedEvents(sm))
    /\ UNCHANGED <<fsm, graph, sm, mu, inflight, walk>>

NextRun ==
    \/ TransitionCall
    \/ StateCall
    \/ CanTransitionCall
    \/ PermittedEventsCall

SpecRun == InitRun /\ [][NextRun]_vars

----------------------------------------------------------------------------
(* The generator called on finished models, and on no model *)

\* the writers handed to GenerateTo: an empty buffer, a buffer that holds
\* something, a writer whose Write fails
Writers == {Writer(<<>>, FALSE), Writer(<<"header">>, FALSE), Writer(<<>>, TRUE)}

GenerateToCall ==
    /\ ~IsNil(graph)
    /\ \E m \in {Nil, fsm}, w \in Writers :
          LET r == GenerateTo(m, w)
          IN  /\ fsm' = (IF IsNil(m) THEN fsm ELSE r.fsm)
              /\ ret' = Call("GenerateTo", IsNil(m), r.err, [before |-> w, after |-> r.w])
    /\ UNCHANGED <<graph, sm, mu, inflight, walk>>

InitGen ==
    /\ fsm \in GraphModels \cup ScenarioModels
    /\ graph = Build(NewStateGraph(fsm), fsm)
    /\ sm = Nil
    /\ ret = Call("Build", Nil, NilErr, Nil)
    /\ mu = Nil
    /\ inflight = <<>>
    /\ walk = NoWalk

NextGen ==
    \/ ValidateCall
    \/ GenerateCall
    \/ GenerateToCall

SpecGen == InitGen /\ [][NextGen]_vars

----------------------------------------------------------------------------
(* The machine generated with the concurrency-safe option, called from      *)
(* several goroutines.  Transition takes the machine's RWMutex with Lock    *)
(* and releases it on return (defer Unlock); State, CanTransition and       *)
(* PermittedEvents take it with RLock.  Each step of a dispatch is a step   *)
(* of the goroutine that runs it.                                           *)

Goroutines == {"g1", "g2"}

\* sync.RWMutex: the goroutine that holds it for writing, those that hold
\* it for reading
Unlocked == [w |-> "", r |-> {}]

CanLock(m) == m.w = "" /\ m.r = {}

\* RLock going ahead while a goroutine holds the mutex for writing
CanRLock_Always(m) == TRUE

CanRLock(m) == m.w = ""

\* a goroutine that has no call in progress
Idle ==
    [op |-> "", arg |-> <<>>, env |-> Nil, pc |-> "idle", from |-> <<>>, res |-> Nil,
     done |-> 0, out |-> Nil]

\* the order model with a transition that has a guard, an action and actions
\* on both of its states
LockScenario ==
    RunScript(NewFSMModel("OrderStateMachine", pending).fsm,
              OrderScript \o << [op |-> "AddTransition",
                                 arg |-> Transition(pending, shipped, ship,
                                                    "hasPayment", "chargeCard")] >>, 1)

\* the guard passes or rejects, the entry action returns or fails
LockEnvs == {env \in Envs : ~env.exit /\ ~env.action}

InitLock ==
    /\ LET r == Generate(LockScenario)
       IN  /\ fsm = r.fsm
           /\ graph = Build(NewStateGraph(r.fsm), r.fsm)
           /\ sm = NewMachine(r.code)
    /\ ret = Call("NewMachine", Nil, NilErr, Nil)
    /\ mu = Unlocked
    /\ inflight = [g \in Goroutines |-> Idle]
    /\ walk = NoWalk

\* go sm.Transition(event)
GoTransition ==
    /\ \E g \in Goroutines, event \in DOMAIN sm.machine.Events, env \in LockEnvs :
          /\ inflight[g].pc = "idle"
          /\ inflight' = [inflight EXCEPT ![g] =
                [Idle EXCEPT !.op = "Transition", !.arg = event, !.env = env, !.pc = "lock"]]
    /\ UNCHANGED <<fsm, graph, sm, ret, mu, walk>>

\* sm.mu.Lock(), and the lookup of the transition for (current state, event)
Lock ==
    /\ \E g \in Goroutines :
          /\ inflight[g].pc = "lock"
          /\ CanLock(mu)
          /\ mu' = [mu EXCEPT !.w = g]
          /\ \E r \in TransitionResults(sm, inflight[g].arg, inflight[g].env) :
                inflight' = [inflight EXCEPT ![g] =
                    [@ EXCEPT !.pc = "run", !.from = sm.currentState, !.res = r]]
    /\ UNCHANGED <<fsm, graph, sm, ret, walk>>

\* the next step of the dispatch: a call of the guard or of an action, or
\* the change of state; the last step leaves the state of the outcome
DispatchStep ==
    /\ \E g \in Goroutines :
          LET c == inflight[g]
              k == c.done + 1
          IN  /\ c.pc = "run"
              /\ c.done < Len(c.res.steps)
              /\ sm' = IF k = Len(c.res.steps)
                          THEN [sm EXCEPT !.currentState = c.res.sm.currentState]
                       ELSE IF c.res.steps[k] = "state"
                          THEN [sm EXCEPT !.currentState = c.res.taken.To]
                       ELSE sm
              /\ inflight' = [inflight EXCEPT ![g].done = k]
    /\ UNCHANGED <<fsm, graph, ret, mu, walk>>

\* the deferred sm.mu.Unlock() and the return of Transition
Unlock ==
    /\ \E g \in Goroutines :
          LET c == inflight[g]
          IN  /\ c.pc = "run"
              /\ c.done = Len(c.res.steps)
              /\ mu' = [mu EXCEPT !.w = ""]
              /\ ret' = Call("Transition", c.arg, c.res.err,
                             [from |-> c.from, steps |-> c.res.steps,
                              taken |-> c.res.taken, env |-> c.env])
              /\ inflight' = [inflight EXCEPT ![g] = Idle]
    /\ UNCHANGED <<fsm, graph, sm, walk>>

\* go sm.State(), go sm.PermittedEvents(), go sm.CanTransition(event)
GoQuery ==
    /\ \E g \in Goroutines :
          /\ inflight[g].pc = "idle"
          /\ \/ \E op \in {"State", "PermittedEvents"} :
                   inflight' = [inflight EXCEPT ![g] =
                       [Idle EXCEPT !.op = op, !.pc = "rlock"]]
             \/ \E event \in DOMAIN sm.machine.Events :
                   inflight' = [inflight EXCEPT ![g] =
                       [Idle EXCEPT !.op = "CanTransition", !.arg = event, !.pc = "rlock"]]
    /\ UNCHANGED <<fsm, graph, sm, ret, mu, walk>>

\* sm.mu.RLock()
RLock ==
    /\ \E g \in Goroutines :
          /\ inflight[g].pc = "rlock"
          /\ CanRLock(mu)
          /\ mu' = [mu EXCEPT !.r = @ \cup {g}]
          /\ inflight' = [inflight EXCEPT ![g].pc = "read"]
    /\ UNCHANGED <<fsm, graph, sm, ret, walk>>

\* the query reads the machine
Read ==
    /\ \E g \in Goroutines :
          LET c == inflight[g]
          IN  /\ c.pc = "read"
              /\ inflight' = [inflight EXCEPT ![g] =
                    [@ EXCEPT !.pc = "runlock",
                              !.out = IF c.op = "State" THEN sm.currentState
                                      ELSE IF c.op = "PermittedEvents" THEN PermittedEvents(sm)
                                      ELSE CanTransition(sm, c.arg)]]
    /\ UNCHANGED <<fsm, graph, sm, ret, mu, walk>>

\* the deferred sm.mu.RUnlock() and the return of the query
RUnlock ==
    /\ \E g \in Goroutines :
          LET c == inflight[g]
          IN  /\ c.pc = "runlock"
              /\ mu' = [mu EXCEPT !.r = @ \ {g}]
              /\ ret' = Call(c.op, c.arg, NilErr, c.out)
              /\ inflight' = [inflight EXCEPT ![g] = Idle]
    /\ UNCHANGED <<fsm, graph, sm, walk>>

NextLock ==
    \/ GoTransition
    \/ Lock
    \/ DispatchStep
    \/ Unlock
    \/ GoQuery
    \/ RLock
    \/ Read
    \/ RUnlock

SpecLock == InitLock /\ [][NextLock]_vars

----------------------------------------------------------------------------
(* The template functions that turn declared names into generated          *)
(* identifiers.  A string is the sequence of its characters; the names     *)
(* the model admits are ASCII, where a byte and a rune coincide.           *)

Alphabet == <<"a", "b", "c", "d", "e", "f", "g", "h", "i", "j", "k", "l", "m",
              "n", "o", "p", "q", "r", "s", "t", "u", "v", "w", "x", "y", "z">>

Capitals == <<"A", "B", "C", "D", "E", "F", "G", "H", "I", "J", "K", "L", "M",
              "N", "O", "P", "Q", "R", "S", "T", "U", "V", "W", "X", "Y", "Z">>

IsUpper(r) == r \in Upper

IsLower(r) == r \in Lower

\* unicode.ToUpper / unicode.ToLower on one character
UnicodeToUpper(r) ==
    IF r \in Lower THEN Capitals[CHOOSE i \in DOMAIN Alphabet : Alphabet[i] = r] ELSE r

UnicodeToLower(r) ==
    IF r \in Upper THEN Alphabet[CHOOSE i \in DOMAIN Capitals : Capitals[i] = r] ELSE r

\* strings.ToUpper / strings.ToLower
ToUpper(s) == [i \in 1..Len(s) |-> UnicodeToUpper(s[i])]

ToLower(s) == [i \in 1..Len(s) |-> UnicodeToLower(s[i])]

\* r == '_' || r == '-' || r == ' ' || r == '.'
Delimiters == {"_", "-", " ", "."}

\* The loop of splitWords from index i on, with the words found so far and
\* the word being collected.
RECURSIVE splitWordsLoop(_, _, _, _)
splitWordsLoop(runes, i, words, currentWord) ==
    IF i > Len(runes)
    THEN IF Len(currentWord) > 0 THEN Append(words, currentWord) ELSE words
    ELSE LET r == runes[i] IN
         IF r \in Delimiters
         THEN IF Len(currentWord) > 0
              THEN splitWordsLoop(runes, i + 1, Append(words, currentWord), <<>>)
              ELSE splitWordsLoop(runes, i + 1, words, currentWord)
         ELSE LET flush == /\ i > 1
                           /\ IsUpper(r)
                           /\ IsLower(runes[i - 1])
                           /\ Len(currentWord) > 0
              IN  splitWordsLoop(runes, i + 1,
                                 IF flush THEN Append(words, currentWord) ELSE words,
                                 Append(IF flush THEN <<>> ELSE currentWord, r))

\* Variant that splits at the delimiters only.
splitWords_DelimitersOnly(s) ==
    splitWordsLoop([i \in 1..Len(s) |->
                       IF s[i] \in Delimiters THEN s[i] ELSE UnicodeToLower(s[i])],
                   1, <<>>, <<>>)

splitWords(s) == splitWordsLoop(s, 1, <<>>, <<>>)

\* The loop of toPascalCase over the words: first character in upper case,
\* the rest of the word in lower case.
RECURSIVE writeWords(_, _, _)
writeWords(words, i, result) ==
    IF i > Len(words) THEN result
    ELSE LET word == words[i] IN
         IF word = <<>>
         THEN writeWords(words, i + 1, result)
         ELSE writeWords(words, i + 1,
                         result \o ToUpper(<<word[1]>>)
                                \o (IF Len(word) > 1 THEN ToLower(Tail(word)) ELSE <<>>))

toPascalCase(s) == IF s = <<>> THEN s ELSE writeWords(splitWords(s), 1, <<>>)

title(s) == IF s = <<>> THEN s ELSE toPascalCase(s)

camelCase(s) ==
    IF s = <<>> THEN s
    ELSE LET pascal == toPascalCase(s) IN
         IF pascal = <<>> THEN pascal
         ELSE <<UnicodeToLower(pascal[1])>> \o Tail(pascal)

MaxNameLen == 3

NameChars == {"a", "b", "A", "B", "1", "_", "-", " ", "."}

order_approved ==
    <<"o", "r", "d", "e", "r", "_", "a", "p", "p", "r", "o", "v", "e", "d">>

user_logged_in == <<"u", "s", "e", "r", "-", "l", "o", "g", "g", "e", "d", "-", "i", "n">>

has_payment == <<"h", "a", "s", "_", "p", "a", "y", "m", "e", "n", "t">>

\* Every string of at most MaxNameLen characters, and the names of the tests.
NameInputs ==
    UNION {[1..k -> NameChars] : k \in 0..MaxNameLen}
        \cup {order_approved, user_logged_in, has_payment}

InitNaming ==
    /\ fsm = NewFSMModel("OrderStateMachine", pending).fsm
    /\ graph = Nil
    /\ sm = Nil
    /\ \E s \in NameInputs : ret = Call("TemplateFuncs", s, NilErr, Nil)
    /\ mu = Nil
    /\ inflight = <<>>
    /\ walk = NoWalk

\* The template hands a declared name to title or to camelCase.
TitleCall ==
    /\ ret' = Call("title", ret.arg, NilErr, title(ret.arg))
    /\ UNCHANGED <<fsm, graph, sm, mu, inflight, walk>>

CamelCaseCall ==
    /\ ret' = Call("camelCase", ret.arg, NilErr, camelCase(ret.arg))
    /\ UNCHANGED <<fsm, graph, sm, mu, inflight, walk>>

NextNaming ==
    \/ TitleCall
    \/ CamelCaseCall

SpecNaming == InitNaming /\ [][NextNaming]_vars

----------------------------------------------------------------------------
(* The traversals of the graph, step by step.  walk holds the call stack   *)
(* of the recursion (a frame is a state and the position of its loop over  *)
(* the outgoing transitions, 0 before the body starts), the maps visited   *)
(* and recStack, the states the range of HasCycles has still to yield, and *)
(* the states whose outgoing transitions were taken up, in order.          *)

Frame(state, i) == [state |-> state, i |-> i]

Top(stack) == stack[Len(stack)]

Pop(stack) == SubSeq(stack, 1, Len(stack) - 1)

SetTop(stack, frame) == [stack EXCEPT ![Len(stack)] = frame]

InitWalk ==
    /\ fsm \in GraphModels \cup ScenarioModels
    /\ graph = Build(NewStateGraph(fsm), fsm)
    /\ sm = Nil
    /\ ret = Call("Build", Nil, NilErr, Nil)
    /\ mu = Nil
    /\ inflight = <<>>
    /\ walk = NoWalk

\* visited := make(map[string]bool); g.dfs(g.FSM.Initial, visited)
computeReachabilityStart ==
    /\ ~walk.running
    /\ walk' = [NoWalk EXCEPT !.kind = "dfs",
                              !.stack = <<Frame(fsm.Initial, 0)>>,
                              !.running = TRUE]
    /\ UNCHANGED <<fsm, graph, sm, ret, mu, inflight>>

\* dfs up to its loop: return if visited[state], else visited[state] = true
dfsEnter ==
    /\ walk.running
    /\ walk.kind = "dfs"
    /\ walk.stack # <<>>
    /\ Top(walk.stack).i = 0
    /\ LET state == Top(walk.stack).state IN
       walk' = IF state \in walk.visited
               THEN [walk EXCEPT !.stack = Pop(@)]
               ELSE [walk EXCEPT !.visited = @ \cup {state},
                                 !.expanded = Append(@, state),
                                 !.stack = SetTop(@, Frame(state, 1))]
    /\ UNCHANGED <<fsm, graph, sm, ret, mu, inflight>>

\* one round of dfs's loop: g.dfs(transition.To, visited), or the return
\* after the last transition
dfsRange ==
    /\ walk.running
    /\ walk.kind = "dfs"
    /\ walk.stack # <<>>
    /\ Top(walk.stack).i >= 1
    /\ LET state == Top(walk.stack).state
           i == Top(walk.stack).i
           ts == MapSlice(graph.adjacencyList, state)
       IN  walk' = IF i > Len(ts)
                   THEN [walk EXCEPT !.stack = Pop(@)]
                   ELSE [walk EXCEPT !.stack = Append(SetTop(@, Frame(state, i + 1)),
                                                      Frame(ts[i].To, 0))]
    /\ UNCHANGED <<fsm, graph, sm, ret, mu, inflight>>

\* g.reachable = visited
computeReachabilityReturn ==
    /\ walk.running
    /\ walk.kind = "dfs"
    /\ walk.stack = <<>>
    /\ walk' = [walk EXCEPT !.running = FALSE]
    /\ UNCHANGED <<fsm, graph, sm, ret, mu, inflight>>

\* visited := make(map[string]bool); recStack := make(map[string]bool)
HasCyclesStart ==
    /\ ~walk.running
    /\ walk' = [NoWalk EXCEPT !.kind = "cycles",
                              !.todo = DOMAIN fsm.States,
                              !.running = TRUE]
    /\ UNCHANGED <<fsm, graph, sm, ret, mu, inflight>>

\* Variant of the test that calls hasCycleUtil for every state of the range.
Unvisited_Always(w, stateName) == TRUE

\* !visited[stateName]
Unvisited(w, stateName) == stateName \notin w.visited

\* one round of HasCycles' range over the states, which yields them in any
\* order, or the return false after the last one
HasCyclesRange ==
    /\ walk.running
    /\ walk.kind = "cycles"
    /\ walk.stack = <<>>
    /\ IF walk.todo = {}
       THEN walk' = [walk EXCEPT !.running = FALSE]
       ELSE \E stateName \in walk.todo :
               walk' = [walk EXCEPT !.todo = @ \ {stateName},
                                    !.stack = IF Unvisited(walk, stateName)
                                              THEN <<Frame(stateName, 0)>>
                                              ELSE <<>>]
    /\ UNCHANGED <<fsm, graph, sm, ret, mu, inflight>>

\* hasCycleUtil up to its loop: visited[state] = true; recStack[state] = true
hasCycleUtilEnter ==
    /\ walk.running
    /\ walk.kind = "cycles"
    /\ walk.stack # <<>>
    /\ Top(walk.stack).i = 0
    /\ LET state == Top(walk.stack).state IN
       walk' = [walk EXCEPT !.visited = @ \cup {state},
                            !.recStack = @ \cup {state},
                            !.expanded = Append(@, state),
                            !.stack = SetTop(@, Frame(state, 1))]
    /\ UNCHANGED <<fsm, graph, sm, ret, mu, inflight>>

\* one round of hasCycleUtil's loop.  A return true is handed up by every
\* caller at once, to HasCycles, which returns true; a return false leaves
\* the caller in its loop.
hasCycleUtilRange ==
    /\ walk.running
    /\ walk.kind = "cycles"
    /\ walk.stack # <<>>
    /\ Top(walk.stack).i >= 1
    /\ LET state == Top(walk.stack).state
           i == Top(walk.stack).i
           ts == MapSlice(graph.adjacencyList, state)
       IN  walk' = IF i > Len(ts)
                   THEN [walk EXCEPT !.recStack = @ \ {state}, !.stack = Pop(@)]
                   ELSE IF ts[i].To \notin walk.visited
                   THEN [walk EXCEPT !.stack = Append(SetTop(@, Frame(state, i + 1)),
                                                      Frame(ts[i].To, 0))]
                   ELSE IF ts[i].To \in walk.recStack
                   THEN [walk EXCEPT !.stack = <<>>, !.found = TRUE, !.running = FALSE]
                   ELSE [walk EXCEPT !.stack = SetTop(@, Frame(state, i + 1))]
    /\ UNCHANGED <<fsm, graph, sm, ret, mu, inflight>>

\* a step of a traversal in progress
WalkStep ==
    \/ dfsEnter
    \/ dfsRange
    \/ computeReachabilityReturn
    \/ HasCyclesRange
    \/ hasCycleUtilEnter
    \/ hasCycleUtilRange

NextWalk ==
    \/ computeReachabilityStart
    \/ HasCyclesStart
    \/ WalkStep

\* a call that was made goes on running
SpecWalk == InitWalk /\ [][NextWalk]_vars /\ WF_vars(WalkStep)

----------------------------------------------------------------------------
(* Properties *)

Range(seq) == {seq[i] : i \in 1..Len(seq)}

AddOps == {"AddState", "AddEvent", "AddTransition"}

C2_ReferentialIntegrity ==
    \A t \in Range(fsm.Transitions) :
        /\ t.From \in DOMAIN fsm.States
        /\ t.To \in DOMAIN fsm.States
        /\ t.Event \in DOMAIN fsm.Events

\* a failed AddTransition after two successful ones
C2_Witness ==
    /\ ret.op = "AddTransition"
    /\ ret.err # NilErr
    /\ Len(fsm.Transitions) = 2

\* the calls the add-operations must refuse in model f
MustFail(op, arg, f) ==
    IF IsNil(arg) THEN TRUE
    ELSE IF op = "AddState" THEN arg.Name = <<>> \/ arg.Name \in DOMAIN f.States
    ELSE IF op = "AddEvent" THEN arg.Name = <<>> \/ arg.Name \in DOMAIN f.Events
    ELSE \/ arg.From \notin DOMAIN f.States
         \/ arg.To \notin DOMAIN f.States
         \/ arg.Event \notin DOMAIN f.Events

\* the model f after the add-operation took effect
Added(op, arg, f) ==
    IF op = "AddState" THEN [f EXCEPT !.States = MapPut(@, arg.Name, arg)]
    ELSE IF op = "AddEvent" THEN [f EXCEPT !.Events = MapPut(@, arg.Name, arg)]
    ELSE [f EXCEPT !.Transitions = Append(@, arg)]

\* C3: an add-operation given a nil argument, an empty name, a duplicate
\* name or a transition with an undeclared end or event returns an error;
\* every add-operation that returns an error leaves the model as it was;
\* and the add-operation that follows a failed one still takes effect.
C3_FailedAddLeavesModel ==
    [][ret'.op \in AddOps =>
          /\ MustFail(ret'.op, ret'.arg, fsm) => ret'.err # NilErr
          /\ ret'.err # NilErr => fsm' = fsm
          /\ (ret.op \in AddOps /\ ret.err # NilErr /\ ~MustFail(ret'.op, ret'.arg, fsm))
                => (ret'.err = NilErr /\ fsm' = Added(ret'.op, ret'.arg, fsm))]_vars

\* a transition refused for its undeclared target, one transition being held
C3_Witness ==
    /\ ret.op = "AddTransition"
    /\ ret.err.msg = "to state %q is not defined"
    /\ Len(fsm.Transitions) = 1

\* C4: AddState with a registered name returns an error and leaves the
\* registry as it was, as AddEvent does for events; a registered name maps
\* to the same entity ever after, so to the first one added.
C4_DuplicateKeepsFirst ==
    [][/\ (ret'.op = "AddState" /\ ~IsNil(ret'.arg) /\ ret'.arg.Name \in DOMAIN fsm.States)
          => (ret'.err = Error("state %q already exists", ret'.arg.Name)
              /\ fsm'.States = fsm.States)
       /\ (ret'.op = "AddEvent" /\ ~IsNil(ret'.arg) /\ ret'.arg.Name \in DOMAIN fsm.Events)
          => (ret'.err = Error("event %q already exists", ret'.arg.Name)
              /\ fsm'.Events = fsm.Events)
       /\ \A n \in DOMAIN fsm.States :
             n \in DOMAIN fsm'.States /\ fsm'.States[n] = fsm.States[n]
       /\ \A n \in DOMAIN fsm.Events :
             n \in DOMAIN fsm'.Events /\ fsm'.Events[n] = fsm.Events[n]]_vars

\* a second, different state refused under a registered name
C4_Witness ==
    /\ ret.op = "AddState"
    /\ ret.err.msg = "state %q already exists"
    /\ fsm.States[ret.arg.Name] # ret.arg

\* C5: every name held in States and Events matches the identifier grammar.
C5_NamesWellFormed ==
    /\ \A n \in DOMAIN fsm.States : validNamePattern(n)
    /\ \A n \in DOMAIN fsm.Events : validNamePattern(n)

\* the errors a Validate call reported: the code returns one error or none
Reported == IF ret.err = NilErr THEN {} ELSE {ret.err}

\* the independent problems of model f that the validation names
Problems(f) ==
    (IF f.Initial \notin DOMAIN f.States THEN {"initial state %q is not defined"} ELSE {})
    \cup (IF DOMAIN f.States = {} THEN {"FSM must have at least one state"} ELSE {})
    \cup (IF DOMAIN f.Events = {} THEN {"FSM must have at least one event"} ELSE {})

\* C6: one Validate call reports every problem of the model.
C6_ReportsEveryProblem ==
    ret.op = "Validate" => \A p \in Problems(fsm) : \E e \in Reported : e.msg = p

\* the (from, event) pairs with more than one transition without a guard
AmbiguousGroups(f) ==
    {g \in (DOMAIN f.States) \X (DOMAIN f.Events) :
        Cardinality({i \in 1..Len(f.Transitions) :
                        /\ f.Transitions[i].From = g[1]
                        /\ f.Transitions[i].Event = g[2]
                        /\ f.Transitions[i].Guard = ""}) > 1}

\* C7: Validate fails on a model with an ambiguous group (the one
\* NonDeterministicTransition it is to report for each group presupposes
\* that it fails).
C7_ReportsNonDeterminism ==
    (ret.op = "Validate" /\ AmbiguousGroups(fsm) # {}) => Reported # {}

\* the declared states no path of transitions reaches from the initial state
Unreachable(f) == (DOMAIN f.States) \ Build(NewStateGraph(f), f).reachable

\* C8: Validate fails on a model with an unreachable state (the one
\* UnreachableState it is to report for each such state presupposes that
\* it fails).
C8_ReportsUnreachable ==
    (ret.op = "Validate" /\ Unreachable(fsm) # {}) => Reported # {}

\* C9: Validate fails when the initial state is not declared, when there
\* is no state and when there is no event.
C9_ValidateNeedsInitialStateEvent ==
    (ret.op = "Validate" /\ ret.err = NilErr) =>
        /\ fsm.Initial \in DOMAIN fsm.States
        /\ DOMAIN fsm.States # {}
        /\ DOMAIN fsm.Events # {}

\* Validate refusing a model that has its initial state and no event
C9_Witness ==
    /\ ret.op = "Validate"
    /\ fsm.Initial \in DOMAIN fsm.States
    /\ DOMAIN fsm.Events = {}
    /\ ret.err = Error("FSM must have at least one event", <<>>)

ReadOnlyOps ==
    {"Build", "IsReachable", "GetUnreachableStates", "HasCycles",
     "GetOutgoingTransitions", "GetIncomingTransitions", "Validate", "Generate"}

\* C10: Build, the graph queries, Validate and Generate leave every field
\* of the model as it was.
C10_ModelReadOnly ==
    [][ret'.op \in ReadOnlyOps => fsm' = fsm]_vars

\* the sum of the lengths of GetTransitionsFrom(s) over the states s of S
RECURSIVE TotalFrom(_, _)
TotalFrom(f, S) ==
    IF S = {} THEN 0
    ELSE LET s == CHOOSE x \in S : TRUE
         IN  Len(GetTransitionsFrom(f, s)) + TotalFrom(f, S \ {s})

\* C11: the lengths of GetTransitionsFrom(s), summed over the declared
\* states s, make the length of Transitions, and every transition is
\* returned for exactly one declared state.
C11_FromPartitionsTransitions ==
    /\ TotalFrom(fsm, DOMAIN fsm.States) = Len(fsm.Transitions)
    /\ \A i \in 1..Len(fsm.Transitions) :
          Cardinality({s \in DOMAIN fsm.States :
                          fsm.Transitions[i] \in Range(GetTransitionsFrom(fsm, s))}) = 1

\* a state queried that holds two of the model's three transitions
C11_Witness ==
    /\ ret.op = "GetTransitionsFrom"
    /\ Len(ret.out) = 2
    /\ Len(fsm.Transitions) = 3

\* the positions in Transitions of the transitions leaving (byFrom) or
\* entering the state name
Positions(f, name, byFrom) ==
    {i \in 1..Len(f.Transitions) :
        (IF byFrom THEN f.Transitions[i].From ELSE f.Transitions[i].To) = name}

\* seq holds the transitions at the positions pos, in the order of Transitions
InOrderAt(f, pos, seq) ==
    /\ Len(seq) = Cardinality(pos)
    /\ \A k \in 1..Len(seq) :
          \E i \in pos : /\ Cardinality({j \in pos : j < i}) = k - 1
                          /\ seq[k] = f.Transitions[i]

\* C12: GetTransitionsFrom(name) is the transitions whose From is name and
\* GetTransitionsTo(name) those whose To is name, in the order of their
\* addition; it is the empty sequence when there is none, and no error.
C12_QueriesSelectInOrder ==
    /\ ret.op = "GetTransitionsFrom" =>
          (ret.err = NilErr /\ InOrderAt(fsm, Positions(fsm, ret.arg, TRUE), ret.out))
    /\ ret.op = "GetTransitionsTo" =>
          (ret.err = NilErr /\ InOrderAt(fsm, Positions(fsm, ret.arg, FALSE), ret.out))

\* two different transitions returned for one target state
C12_Witness ==
    /\ ret.op = "GetTransitionsTo"
    /\ Len(ret.out) = 2
    /\ ret.out[1] # ret.out[2]

\* the graph is as Build leaves it for the model
Built == ~IsNil(graph) /\ graph = Build(graph, fsm)

\* the states a path of transitions reaches from a state of S (S included)
RECURSIVE ReachFrom(_, _)
ReachFrom(f, S) ==
    LET n == S \cup {t.To : t \in {u \in Range(f.Transitions) : u.From \in S}}
    IN  IF n = S THEN S ELSE ReachFrom(f, n)

\* the transitions of f form a directed cycle
HasDirectedCycle(f) ==
    \E t \in Range(f.Transitions) : t.From \in ReachFrom(f, {t.To})

\* the order model, with the unconnected state archived, and with the back
\* edge from shipped to pending
ScenarioA == RunScript(NewFSMModel("OrderStateMachine", pending).fsm, OrderScript, 1)

ScenarioB == AddState(ScenarioA, State(archived, "", "")).fsm

ScenarioC == AddTransition(ScenarioA, Transition(shipped, pending, ship, "", "")).fsm

C14_HasCyclesIffDirectedCycle ==
    (ret.op = "HasCycles" /\ Built) =>
        /\ ret.out = HasDirectedCycle(fsm)
        /\ fsm = ScenarioA => ret.out = FALSE
        /\ fsm = ScenarioC => ret.out = TRUE

\* a cycle between approved and shipped that the initial state does not reach
C14_Witness ==
    /\ ret.op = "HasCycles"
    /\ Built
    /\ ret.out = TRUE
    /\ pending \in DOMAIN fsm.States
    /\ Range(fsm.Transitions) = {Transition(approved, shipped, ship, "", ""),
                                 Transition(shipped, approved, ship, "", "")}

\* C15: on the built graph a declared state is reachable exactly when a
\* path of transitions leads to it from the initial state (the empty path
\* for the initial state itself); without transitions the initial state alone.
C15_ReachableIffPath ==
    Built =>
        /\ \A s \in DOMAIN fsm.States :
              IsReachable(graph, s) <=> s \in ReachFrom(fsm, {fsm.Initial})
        /\ fsm.Transitions = <<>> =>
              \A s \in DOMAIN fsm.States : IsReachable(graph, s) <=> s = fsm.Initial
        /\ (ret.op = "IsReachable" /\ ret.arg \in DOMAIN fsm.States) =>
              ret.out = (ret.arg \in ReachFrom(fsm, {fsm.Initial}))

\* a state reported reachable that only a path of two transitions reaches
C15_Witness ==
    /\ ret.op = "IsReachable"
    /\ Built
    /\ ret.out = TRUE
    /\ ret.arg # fsm.Initial
    /\ \A t \in Range(fsm.Transitions) : ~(t.From = fsm.Initial /\ t.To = ret.arg)

\* C16: on the built graph GetUnreachableStates returns the declared states
\* for which IsReachable is false, each once; exactly archived for the order
\* model with the unconnected state archived.
C16_UnreachableIsComplement ==
    (ret.op = "GetUnreachableStates" /\ Built) =>
        /\ Range(ret.out) = {s \in DOMAIN fsm.States : ~IsReachable(graph, s)}
        /\ Len(ret.out) = Cardinality(Range(ret.out))
        /\ fsm = ScenarioB => ret.out = <<archived>>

\* the order model with archived: archived alone is returned
C16_Witness ==
    /\ ret.op = "GetUnreachableStates"
    /\ Built
    /\ fsm = ScenarioB
    /\ ret.out = <<archived>>

\* C17: for a name that is not a declared state GetOutgoingTransitions and
\* GetIncomingTransitions return the empty sequence and IsReachable returns
\* false, without error, also when the Initial name was never added.
C17_UndeclaredNameAnswersEmpty ==
    /\ (ret.op \in {"GetOutgoingTransitions", "GetIncomingTransitions"}
            /\ ret.arg \notin DOMAIN fsm.States)
          => (ret.err = NilErr /\ ret.out = <<>>)
    /\ (ret.op = "IsReachable" /\ ret.arg \notin DOMAIN fsm.States)
          => (ret.err = NilErr /\ ret.out = FALSE)

\* the steps that come after step in the order of the dispatch
Later(step) ==
    IF step = "guard" THEN {"exit", "action", "state", "entry"}
    ELSE IF step = "exit" THEN {"action", "state", "entry"}
    ELSE IF step = "action" THEN {"state", "entry"}
    ELSE IF step = "state" THEN {"entry"}
    ELSE {}

\* the step of the last Transition call that fails first under what the
\* guard and the actions answered, "" when none fails
FirstFailure ==
    LET t   == ret.out.taken
        src == fsm.States[ret.out.from]
        dst == fsm.States[t.To]
        env == ret.out.env
    IN  IF t.Guard # "" /\ ~env.guard THEN "guard"
        ELSE IF src.ExitAction # "" /\ env.exit THEN "exit"
        ELSE IF t.Action # "" /\ env.action THEN "action"
        ELSE IF dst.EntryAction # "" /\ env.entry THEN "entry"
        ELSE ""

C19_AnyFailureLeavesState ==
    (ret.op = "Transition" /\ ret.err # NilErr) => sm.currentState = ret.out.from

DeclaredFromCurrent(e) ==
    \E t \in Range(GetTransitionsFrom(fsm, sm.currentState)) : t.Event = e

Dispatching == {g \in Goroutines : inflight[g].pc = "run"}

Querying == {g \in Goroutines : inflight[g].pc \in {"read", "runlock"}}

\* the state a dispatch that runs alone has brought the machine to
StateOfDispatch(c) ==
    IF c.done = Len(c.res.steps) THEN c.res.sm.currentState
    ELSE IF \E i \in 1..c.done : c.res.steps[i] = "state" THEN c.res.taken.To
    ELSE c.from

\* C22: with the concurrency-safe option at most one goroutine is inside a
\* dispatch, it holds the exclusive lock from the lookup to the return, the
\* machine's state is the one its own steps made (no other dispatch has
\* interleaved), and no state query runs while a dispatch is in progress:
\* what a query has read is still the machine's state when it returns.
C22_DispatchExcludesAll ==
    /\ Cardinality(Dispatching) <= 1
    /\ \A g \in Dispatching :
          /\ mu.w = g
          /\ Querying = {}
          /\ sm.currentState = StateOfDispatch(inflight[g])
    /\ \A g \in Querying :
          /\ g \in mu.r
          /\ inflight[g].pc = "runlock" =>
                inflight[g].out =
                    (IF inflight[g].op = "State" THEN sm.currentState
                     ELSE IF inflight[g].op = "PermittedEvents" THEN PermittedEvents(sm)
                     ELSE CanTransition(sm, inflight[g].arg))

\* a dispatch between the change of state and the entry action, while the
\* other goroutine waits for the lock with a query
C22_Witness ==
    \E g, h \in Goroutines :
        /\ inflight[g].pc = "run"
        /\ inflight[g].done = 4
        /\ inflight[g].res.steps = <<"guard", "exit", "action", "state", "entry">>
        /\ inflight[h].pc = "rlock"
        /\ inflight[h].op = "State"

\* C23: for a nil model Generate returns the error "model cannot be nil"
\* and no bytes, and GenerateTo returns that error and leaves the writer
\* as it was.
C23_NilModelNoOutput ==
    /\ (ret.op = "Generate" /\ ret.arg = TRUE) =>
          (ret.err = Error("model cannot be nil", <<>>) /\ IsNil(ret.out))
    /\ (ret.op = "GenerateTo" /\ ret.arg = TRUE) =>
          (ret.err = Error("model cannot be nil", <<>>) /\ ret.out.after = ret.out.before)

\* GenerateTo(nil, w) on a buffer that already holds something
C23_Witness ==
    /\ ret.op = "GenerateTo"
    /\ ret.arg = TRUE
    /\ ret.err # NilErr
    /\ ret.out.before.data = <<"header">>
    /\ ret.out.after.data = <<"header">>

\* The characters of s that are not delimiters, and the place of the i-th
\* character among them.
Kept(s) == {i \in 1..Len(s) : s[i] \notin Delimiters}

Rank(s, i) == Cardinality({j \in Kept(s) : j <= i})

\* A word starts at the first character, after a delimiter, and at an
\* uppercase letter that follows a lowercase letter.
WordStart(s, i) ==
    \/ i = 1
    \/ s[i - 1] \in Delimiters
    \/ s[i] \in Upper /\ s[i - 1] \in Lower

\* The words of s, capitalized and concatenated: the kept characters in
\* order, each in upper case where it starts a word and in lower case
\* elsewhere.
WordsCapitalized(s) ==
    [k \in 1..Cardinality(Kept(s)) |->
        LET i == CHOOSE j \in Kept(s) : Rank(s, j) = k IN
        IF WordStart(s, i) THEN UnicodeToUpper(s[i]) ELSE UnicodeToLower(s[i])]

OrderApproved == <<"O", "r", "d", "e", "r", "A", "p", "p", "r", "o", "v", "e", "d">>

UserLoggedIn == <<"U", "s", "e", "r", "L", "o", "g", "g", "e", "d", "I", "n">>

\* C24: for a string of letters, digits and delimiters, title(s) is the
\* words of s (cut at every delimiter and before every uppercase letter
\* that follows a lowercase letter), each capitalized, concatenated in
\* order without the delimiters; order_approved gives OrderApproved and
\* user-logged-in gives UserLoggedIn; camelCase(s) is that string with only
\* its first character lowered.
C24_TitleCapitalizesWords ==
    /\ ret.op = "title" => ret.out = WordsCapitalized(ret.arg)
    /\ (ret.op = "title" /\ ret.arg = order_approved) => ret.out = OrderApproved
    /\ (ret.op = "title" /\ ret.arg = user_logged_in) => ret.out = UserLoggedIn
    /\ ret.op = "camelCase" =>
          LET t == WordsCapitalized(ret.arg) IN
          /\ Len(ret.out) = Len(t)
          /\ \A i \in 1..Len(t) :
                ret.out[i] = IF i = 1 THEN UnicodeToLower(t[i]) ELSE t[i]

\* title of a name that has a delimiter and a lowercase-to-uppercase
\* boundary
C24_Witness ==
    /\ ret.op = "title"
    /\ ret.arg = <<"a", "B", "_">>
    /\ ret.out = <<"A", "B">>

\* C25: for a name of the identifier grammar, title(name) is not empty and
\* holds only letters and digits.
C25_TitleIsIdentifier ==
    (ret.op = "title" /\ validNamePattern(ret.arg)) =>
        /\ ret.out # <<>>
        /\ \A i \in 1..Len(ret.out) : ret.out[i] \in Lower \cup Upper \cup Digit

\* The names of the identifier grammar among the inputs.
ValidNames == {s \in NameInputs : validNamePattern(s)}

\* C29: two distinct names of the identifier grammar have distinct titles.
C29_TitleInjective ==
    (ret.op = "title" /\ validNamePattern(ret.arg)) =>
        \A b \in ValidNames : b # ret.arg => title(b) # ret.out

\* C26: the traversal of Build and the traversal of HasCycles come to an
\* end on every model, with self-transitions, cycles over several states
\* and several transitions between two states; within one traversal no
\* state has its outgoing transitions taken up twice.
C26_TraversalsTerminate ==
    /\ [](\A i, j \in 1..Len(walk.expanded) :
            walk.expanded[i] = walk.expanded[j] => i = j)
    /\ (walk.running ~> ~walk.running)

\* HasCycles has returned false after going through the four states of a
\* model with two transitions between the same two states, pending first
C26_Witness ==
    /\ walk.kind = "cycles"
    /\ ~walk.running
    /\ ~walk.found
    /\ \E i, j \in 1..Len(fsm.Transitions) :
          /\ i # j
          /\ fsm.Transitions[i].From = fsm.Transitions[j].From
          /\ fsm.Transitions[i].To = fsm.Transitions[j].To
    /\ Len(walk.expanded) = 4
    /\ walk.expanded[1] = pending

\* Build has been called on the graph
AfterBuild == ~IsNil(graph) /\ graph # NewStateGraph(fsm)

\* C27: after Build, for every declared state the graph returns the
\* outgoing transitions that GetTransitionsFrom returns and the incoming
\* transitions that GetTransitionsTo returns, as the same sequences.
C27_GraphViewsAgreeWithModel ==
    AfterBuild =>
        /\ \A s \in DOMAIN fsm.States :
              /\ GetOutgoingTransitions(graph, s) = GetTransitionsFrom(fsm, s)
              /\ GetIncomingTransitions(graph, s) = GetTransitionsTo(fsm, s)
        /\ (ret.op = "GetOutgoingTransitions" /\ ret.arg \in DOMAIN fsm.States) =>
              ret.out = GetTransitionsFrom(fsm, ret.arg)
        /\ (ret.op = "GetIncomingTransitions" /\ ret.arg \in DOMAIN fsm.States) =>
              ret.out = GetTransitionsTo(fsm, ret.arg)

\* the incoming transitions of a declared state that was given the same
\* transition twice
C27_Witness ==
    /\ AfterBuild
    /\ ret.op = "GetIncomingTransitions"
    /\ ret.arg \in DOMAIN fsm.States
    /\ Len(ret.out) = 2
    /\ ret.out[1] = ret.out[2]

\* C28: Build called on a graph that Build has made for the model leaves
\* both adjacency lists and the reachable set as they were.
C28_BuildIdempotent ==
    (ret.op = "Build" /\ ret.arg = Build(NewStateGraph(fsm), fsm)) => graph = ret.arg

\* a second Build of a model with two transitions and two reachable states
C28_Witness ==
    /\ ret.op = "Build"
    /\ ret.arg = Build(NewStateGraph(fsm), fsm)
    /\ graph = ret.arg
    /\ Len(fsm.Transitions) = 2
    /\ Cardinality(graph.reachable) = 2
    /\ \E s \in DOMAIN fsm.States : Len(graph.adjacencyList[s]) = 2

\* C30: for a model whose initial state is declared, the generated machine
\* starts in the initial state, and after every Transition call, whether
\* it succeeds or fails, its current state is a declared state that
\* IsReachable reports reachable on the built graph.
C30_CurrentStateReachable ==
    fsm.Initial \in DOMAIN fsm.States =>
        /\ ret.op = "NewMachine" => sm.currentState = fsm.Initial
        /\ sm.currentState \in DOMAIN fsm.States
        /\ IsReachable(graph, sm.currentState)

\* a Transition call that fails in the state shipped, two transitions away
\* from the initial state
C30_Witness ==
    /\ fsm.Initial \in DOMAIN fsm.States
    /\ ret.op = "Transition"
    /\ ret.err # NilErr
    /\ ret.out.from = shipped
    /\ sm.currentState = shipped
    /\ shipped # fsm.Initial
    /\ IsReachable(graph, shipped)

====
